---- MODULE Spec2Model ----
(***************************************************************************)
(* ADS-B aircraft-record compression and its map-reduce orchestration.     *)
(*                                                                         *)
(* A data frame is a sequence of rows; a row is a record with the fields   *)
(* time, icao and the seven content attributes of COLUMNS.  Attribute      *)
(* values are strings, modelled as sequences of character codes so that    *)
(* the '|'-joined signature and its lexicographic order (which pandas'     *)
(* groupby sorts by) are computed as the code computes them.  The icao is  *)
(* the 24-bit address as a number (fixed-width hex strings sort alike).    *)
(***************************************************************************)
EXTENDS Integers, Sequences, FiniteSets, TLC

\* ------------------------------------------------------------------ bounds
\* Largest number of raw observations the day-loader returns for one day
\* in the engine specifications.
MaxObs == 3
\* The last day of the global date range 1..MaxDay of a run.
MaxDay == 3

\* Longest list of trace files handed to the extractor.
MaxFiles == 3

\* Most rows one trace file yields.
MaxRows == 2

\* Latest date of a global range, in days.
MaxDate == 5

\* Longest chunk length asked of generate_date_chunks, in days.
MaxChunkDays == 3

\* --------------------------------------------------------- value domains
\* The empty string: "unknown".
Empty == <<>>
\* A null cell of the raw parquet frame (NaN / None before fillna('')).
Null == <<0>>
\* "1", "A", "1999" as character codes.
Str1 == <<49>>
StrA == <<65>>
Str1999 == <<49, 57, 57, 57>>
\* '|' , the delimiter of '|'.join
Pipe == <<124>>

ICAO == {1, 2}
Times == {1, 2}

COLUMNS == <<"dbFlags", "ownOp", "year", "desc", "aircraft_category", "r", "t">>

ColumnSet == {COLUMNS[i] : i \in DOMAIN COLUMNS}

\* A row of a frame with the given time, icao, dbFlags and year; the other
\* content attributes are unknown.
Row(time, icao, dbFlags, year) ==
    [time |-> time, icao |-> icao, dbFlags |-> dbFlags, ownOp |-> Empty,
     year |-> year, desc |-> Empty, aircraft_category |-> Empty,
     r |-> Empty, t |-> Empty]

\* Content-attribute combinations the loaders deliver: (dbFlags, year).
Profiles ==
    { <<Empty, Empty>>, <<Str1, Empty>>, <<Str1, Null>>, <<Empty, Str1999>>,
      <<Str1, Str1999>>, <<StrA, Str1999>> }

Observations ==
    { Row(tm, ic, p[1], p[2]) : tm \in Times, ic \in ICAO, p \in Profiles }

\* ------------------------------------------------------- frame primitives
\* Lexicographic order of two strings (Python's str comparison): decided by
\* the first position at which they differ, else by length.
StrLess(s1, s2) ==
    LET m == IF Len(s1) < Len(s2) THEN Len(s1) ELSE Len(s2)
        diff == {k \in 1..m : s1[k] # s2[k]}
    IN  IF diff = {} THEN Len(s1) < Len(s2)
        ELSE LET k == CHOOSE x \in diff : \A y \in diff : x <= y
             IN  s1[k] < s2[k]

\* A stable sort of s by its keys: key[i], a tuple of integers or a string,
\* is the sort key of s[i], and keys are ordered lexicographically.
StableSortByKey(s, key) ==
    LET n == Len(s)
        rank == [i \in 1..n |->
                    Cardinality({j \in 1..n :
                        StrLess(key[j], key[i])
                            \/ (~StrLess(key[i], key[j]) /\ j < i)})]
    IN  [p \in 1..n |-> s[CHOOSE i \in 1..n : rank[i] = p - 1]]

\* The rows of s at the indices of idxs, in frame order (boolean-mask indexing).
Mask(s, idxs) ==
    LET pos == [i \in idxs |-> Cardinality({j \in idxs : j < i})]
    IN  [p \in 1..Cardinality(idxs) |-> s[CHOOSE i \in idxs : pos[i] = p - 1]]

\* df[COLUMNS].fillna(''): a null content attribute becomes the empty string.
fillna(df) ==
    [i \in DOMAIN df |->
        [f \in DOMAIN df[i] |->
            IF f \in ColumnSet /\ df[i][f] = Null THEN Empty ELSE df[i][f]]]

\* df.sort_values(['icao', 'time']): a stable lexsort.
sort_icao_time(df) ==
    StableSortByKey(df, [i \in DOMAIN df |-> <<df[i].icao, df[i].time>>])

\* Mutant of sort_time: the frame is left in the order it has.
sort_time_none(df) == df

\* df.sort_values('time')
sort_time(df) ==
    StableSortByKey(df, [i \in DOMAIN df |-> <<df[i].time>>])

\* ------------------------------------------------------------- signature
RECURSIVE JoinFrom(_, _)
JoinFrom(row, i) ==
    IF i > Len(COLUMNS) THEN <<>>
    ELSE (IF i = 1 THEN <<>> ELSE Pipe) \o row[COLUMNS[i]] \o JoinFrom(row, i + 1)

\* df[COLUMNS].astype(str).agg('|'.join, axis=1) for one row
signature(row) == JoinFrom(row, 1)


\* ------------------------------------------------- compress_df (the engine)
\* signature_counts = df["_signature"].value_counts(): rows of df carrying sig.
signature_counts(df, sig) ==
    Cardinality({i \in DOMAIN df : signature(df[i]) = sig})

\* Mutant of groupby_signature_first: groupby(sort=False), the groups in order
\* of first appearance instead of ascending signature order.
groupby_signature_first_unsorted(df) ==
    LET sig == [i \in DOMAIN df |-> signature(df[i])]
    IN  Mask(df, {i \in DOMAIN df : \A j \in 1..(i - 1) : sig[j] # sig[i]})

\* df.groupby("_signature", as_index=False).first(): one row per signature,
\* the first of its group in frame order; groups in ascending signature order.
groupby_signature_first(df) ==
    LET sig == [i \in DOMAIN df |-> signature(df[i])]
        firsts == {i \in DOMAIN df : \A j \in 1..(i - 1) : sig[j] # sig[i]}
    IN  StableSortByKey(Mask(df, firsts), Mask(sig, firsts))

\* {col: row[col] for col in COLUMNS if row[col] != ''}
get_non_empty_dict(row) ==
    [col \in {c \in ColumnSet : row[c] # Empty} |-> row[col]]

\* df['_non_empty_count'] for one row
NonEmptyCount(row) == Cardinality(DOMAIN get_non_empty_dict(row))

\* Python's None, the result of dict.get on a missing key.
None == <<-1>>

\* d.get(k)
dict_get(d, k) == IF k \in DOMAIN d THEN d[k] ELSE None

\* Mutant of is_subset_of_any: compares which attributes are set, not their
\* values (k in other_dict instead of row_dict.get(k) == other_dict.get(k)).
is_subset_of_any_keys(df, idx) ==
    LET row_dict == get_non_empty_dict(df[idx])
        row_count == Cardinality(DOMAIN row_dict)
    IN  \E other_idx \in DOMAIN df :
            /\ other_idx # idx
            /\ LET other_dict == get_non_empty_dict(df[other_idx])
                   other_count == Cardinality(DOMAIN other_dict)
               IN  /\ \A k \in DOMAIN row_dict : k \in DOMAIN other_dict
                   /\ other_count > row_count

\* is_subset_of_any(idx): some other row agrees with every non-empty value of
\* row idx and has more non-empty values.
is_subset_of_any(df, idx) ==
    LET row_dict == get_non_empty_dict(df[idx])
        row_count == Cardinality(DOMAIN row_dict)
    IN  \E other_idx \in DOMAIN df :
            /\ other_idx # idx
            /\ LET other_dict == get_non_empty_dict(df[other_idx])
                   other_count == Cardinality(DOMAIN other_dict)
               IN  /\ \A k \in DOMAIN row_dict :
                          dict_get(row_dict, k) = dict_get(other_dict, k)
                   /\ other_count > row_count

\* keep_mask = ~df.index.to_series().apply(is_subset_of_any); df = df[keep_mask]
subsumption_filter(df) ==
    Mask(df, {idx \in DOMAIN df : ~is_subset_of_any(df, idx)})

\* Mutant of select_max_signature: keeps every row whose count equals the
\* maximum (df[sig_counts == sig_counts.max()]) instead of the idxmax row.
select_max_signature_ties(df, original_df) ==
    LET sig_counts == [i \in DOMAIN df |-> signature_counts(original_df, signature(df[i]))]
    IN  Mask(df, {i \in DOMAIN df : \A j \in DOMAIN df : sig_counts[j] <= sig_counts[i]})

\* Mutant of select_max_signature: among the signatures of greatest count, the
\* one that appears first in the rows handed to compress_df (the order of
\* value_counts itself) instead of the first in the order of df.
select_max_signature_by_appearance(df, original_df) ==
    LET sig_counts == [i \in DOMAIN df |-> signature_counts(original_df, signature(df[i]))]
        first_seen == [i \in DOMAIN df |->
                         CHOOSE j \in DOMAIN original_df :
                            /\ signature(original_df[j]) = signature(df[i])
                            /\ \A k \in 1..(j - 1) :
                                  signature(original_df[k]) # signature(df[i])]
        first_max == CHOOSE i \in DOMAIN df :
                        /\ \A j \in DOMAIN df : sig_counts[j] <= sig_counts[i]
                        /\ \A j \in DOMAIN df :
                              sig_counts[j] = sig_counts[i] => first_seen[i] <= first_seen[j]
        max_signature == signature(df[first_max])
    IN  Mask(df, {i \in DOMAIN df : signature(df[i]) = max_signature})

\* sig_counts = signature_counts[remaining_sigs]; max_signature =
\* sig_counts.idxmax(); df = df[df['_signature'] == max_signature].
\* idxmax returns the label of the first maximum in the order of df.
select_max_signature(df, original_df) ==
    LET sig_counts == [i \in DOMAIN df |-> signature_counts(original_df, signature(df[i]))]
        first_max == CHOOSE i \in DOMAIN df :
                        /\ \A j \in DOMAIN df : sig_counts[j] <= sig_counts[i]
                        /\ \A j \in 1..(i - 1) : sig_counts[j] < sig_counts[i]
        max_signature == signature(df[first_max])
    IN  Mask(df, {i \in DOMAIN df : signature(df[i]) = max_signature})

\* compress_df(df) for the group of rows df of aircraft icao (df.name).
compress_df(df, icao) ==
    LET grouped == groupby_signature_first(df)
        kept == subsumption_filter(grouped)
        chosen == IF Len(kept) > 1 THEN select_max_signature(kept, df) ELSE kept
    IN  [i \in DOMAIN chosen |-> [chosen[i] EXCEPT !.icao = icao]]

\* ---------------------------------------------------- the unit compressor
\* The icao values of a frame.
Icaos(df) == {df[i].icao : i \in DOMAIN df}

\* The rows of aircraft icao, in frame order.
Group(df, icao) == Mask(df, {i \in DOMAIN df : df[i].icao = icao})

RECURSIVE ApplyFrom(_, _)
ApplyFrom(df, icaos) ==
    IF icaos = {} THEN <<>>
    ELSE LET ic == CHOOSE x \in icaos : \A y \in icaos : x <= y
         IN  compress_df(Group(df, ic), ic) \o ApplyFrom(df, icaos \ {ic})

\* df.groupby('icao', group_keys=False).apply(compress_df)
groupby_icao_apply(df) == ApplyFrom(df, Icaos(df))

\* Mutant of drop_duplicates: keep='last'.
drop_duplicates_last(df) ==
    Mask(df, {i \in DOMAIN df :
                \A j \in (i + 1)..Len(df) :
                    \/ df[j].icao # df[i].icao
                    \/ \E c \in ColumnSet : df[j][c] # df[i][c]})

\* df.drop_duplicates(subset=['icao'] + COLUMNS, keep='first')
drop_duplicates(df) ==
    Mask(df, {i \in DOMAIN df :
                \A j \in 1..(i - 1) :
                    \/ df[j].icao # df[i].icao
                    \/ \E c \in ColumnSet : df[j][c] # df[i][c]})

\* load_historical_for_day, given the frame load_raw_adsb_for_day returned.
load_historical_for_day(df) ==
    IF df = <<>> THEN df
    ELSE groupby_icao_apply(drop_duplicates(fillna(sort_icao_time(df))))

\* Mutant of concat_compressed_dfs: an inner join, keeping only the aircraft
\* that both inputs hold.
concat_compressed_dfs_inner(df_base, df_new) ==
    LET both == Icaos(df_base) \cap Icaos(df_new)
        df_combined == df_base \o df_new
        joined == Mask(df_combined, {i \in DOMAIN df_combined : df_combined[i].icao \in both})
    IN  sort_time(groupby_icao_apply(fillna(sort_icao_time(joined))))

\* concat_compressed_dfs(df_base, df_new): the merge.
concat_compressed_dfs(df_base, df_new) ==
    sort_time(groupby_icao_apply(fillna(sort_icao_time(df_base \o df_new))))

\* Mutant of deduplicate_by_signature: groups by icao alone, so one record
\* per aircraft is kept.
deduplicate_by_icao(df) ==
    LET firsts == {i \in DOMAIN df : \A j \in 1..(i - 1) : df[j].icao # df[i].icao}
        key == [i \in DOMAIN df |-> <<df[i].icao>>]
        grouped == StableSortByKey(Mask(df, firsts), Mask(key, firsts))
    IN  sort_time(grouped)

\* Mutant of deduplicate_by_signature: groups by (icao, signature, time), so
\* a signature seen at two instants is kept twice.
deduplicate_by_signature_time(df) ==
    sort_time(Mask(df, {i \in DOMAIN df : \A j \in 1..(i - 1) : df[j] # df[i]}))

\* Mutant of deduplicate_by_signature: re-applies the engine per aircraft, as
\* the merge does, so a subsumed record is dropped.
deduplicate_by_compress(df) ==
    sort_time(groupby_icao_apply(sort_icao_time(df)))

\* deduplicate_by_signature(df): the first row of every (icao, signature)
\* group, groups in ascending key order, then sorted by time.
deduplicate_by_signature(df) ==
    LET sig == [i \in DOMAIN df |-> signature(df[i])]
        firsts == {i \in DOMAIN df :
                     \A j \in 1..(i - 1) :
                        df[j].icao # df[i].icao \/ sig[j] # sig[i]}
        key == [i \in DOMAIN df |-> <<df[i].icao>> \o sig[i]]
        grouped == StableSortByKey(Mask(df, firsts), Mask(key, firsts))
    IN  sort_time(grouped)

\* ------------------------------------------------------------------ state
VARIABLES
    \* the engine applied to one aircraft's rows
    e_df,          \* the group of rows handed to compress_df
    e_pc,          \* "input" before the call, "done" after it
    e_grouped,     \* the one-per-signature rows (df after groupby.first)
    e_kept,        \* the rows left by the subsumption filter
    e_out,         \* the frame compress_df returns
    e_alt,         \* another ordering of the rows of e_df
    e_altOut,      \* the frame compress_df returns for e_alt
    \* the per-day compression of one raw frame
    d_raw,         \* the frame load_raw_adsb_for_day returned
    d_pc,          \* "input" before load_historical_for_day, "done" after
    d_out,         \* the frame load_historical_for_day returns
    \* the merge of two compressed frames
    m_base,        \* df_base
    m_new,         \* df_new
    m_pc,          \* how many of the three merges below have been computed
    m_bn,          \* concat_compressed_dfs(df_base, df_new)
    m_nb,          \* concat_compressed_dfs(df_new, df_base)
    m_bb,          \* concat_compressed_dfs(df_base, df_base)
    \* the map-reduce run: chunk workers, shared storage, reducer
    dayData,       \* what the day-loader yields for each day (the environment)
    w_env,         \* per worker: its environment (RUN_ID, START_DATE, END_DATE,
                   \* and unset: the names absent from it)
    w_pc,          \* per worker: "start", "loop" (the day loop), "done", "failed"
    w_cur,         \* per worker: current_date
    w_acc,         \* per worker: df_accumulated
    w_exit,        \* per worker: "running", "ok" (returned), "error" (raised)
    w_scratch,     \* per worker: whether its directory data/adsb exists
    w_pub,         \* per worker: the uploads it made, <<key, content>> each
    w_loaded,      \* per worker: the days it called the day-loader for, in order
    retries,       \* per worker: how many more times it will be started
    s3,            \* shared storage: key -> object content
    r_unset,       \* reducer: the names absent from its environment
    r_pc,          \* reducer: "start", "download", "done"
    r_keys,        \* reducer: chunk_keys
    r_seen,        \* reducer: the keys in storage at the moment it listed
    r_idx,         \* reducer: position of the download loop in chunk_keys
    r_acc,         \* reducer: df_accumulated
    r_exit,        \* reducer: "running", "ok" (returned), "error" (raised)
    \* the extractor: process_chunk over a list of trace files
    x_files,       \* per trace file, what process_file does with it
    x_failAt,      \* which write_table call raises (0: none does)
    x_pc,          \* "start", "loop" (the file loop), "done", "failed"
    x_idx,         \* position of the file loop in trace_files
    batch_rows,    \* the row buffer
    total_rows,    \* the count of rows written
    x_writes,      \* how many write_table calls were made
    x_sink,        \* the rows in the file at output_path, in write order
    x_exists,      \* whether a file exists at output_path
    x_exit,        \* "running", "path" / "None" (returned), "error" (raised)
    \* generate_date_chunks
    g_start,       \* start_date
    g_end,         \* end_date
    g_days,        \* chunk_days
    g_pc,          \* "loop" (the while loop), "done" (returned)
    g_current,     \* current
    g_chunks       \* chunks

engineVars == <<e_df, e_pc, e_grouped, e_kept, e_out, e_alt, e_altOut>>

dayVars == <<d_raw, d_pc, d_out>>

mergeVars == <<m_base, m_new, m_pc, m_bn, m_nb, m_bb>>

workerVars == <<w_env, w_pc, w_cur, w_acc, w_exit, w_scratch, w_pub, w_loaded, retries>>

reducerVars == <<r_unset, r_pc, r_keys, r_seen, r_idx, r_acc, r_exit>>

runVars == <<dayData, workerVars, s3, reducerVars>>

extractVars == <<x_files, x_failAt, x_pc, x_idx, batch_rows, total_rows,
                 x_writes, x_sink, x_exists, x_exit>>

chunkVars == <<g_start, g_end, g_days, g_pc, g_current, g_chunks>>

unitVars == <<extractVars, chunkVars>>

vars == <<engineVars, dayVars, mergeVars, runVars, unitVars>>

\* Sequences over S of length at most n.
RECURSIVE SeqsUpTo(_, _)
SeqsUpTo(S, n) ==
    IF n = 0 THEN {<<>>}
    ELSE LET shorter == SeqsUpTo(S, n - 1)
         IN  shorter \cup {Append(s, x) : s \in {q \in shorter : Len(q) = n - 1}, x \in S}

\* Raw observations of a day: any observation of aircraft 1, and aircraft 2
\* reporting dbFlags "1" at time 1.
DayObservations ==
    {o \in Observations : o.icao = 1 \/ (o.time = 1 /\ o.dbFlags = Str1)}

\* Rows as compress_df receives and returns them: nulls already filled.
FilledRows == {o \in Observations : o.year # Null}

\* Rows of one aircraft as compress_df receives them.
EngineRows == {o \in FilledRows : o.icao = 1}

\* Compressed frames: at most one row per aircraft, in icao order (the merge
\* sorts its input by icao, time before anything else reads it).
CompressedFrames ==
    {<<>>} \cup {<<x>> : x \in FilledRows}
           \cup {f \in {<<x, y>> : x \in FilledRows, y \in FilledRows} :
                    f[1].icao < f[2].icao}

EngineIdle ==
    /\ e_df = <<>>
    /\ e_pc = "idle"
    /\ e_grouped = <<>>
    /\ e_kept = <<>>
    /\ e_out = <<>>
    /\ e_alt = <<>>
    /\ e_altOut = <<>>

DayIdle ==
    /\ d_raw = <<>>
    /\ d_pc = "idle"
    /\ d_out = <<>>

MergeIdle ==
    /\ m_base = <<>>
    /\ m_new = <<>>
    /\ m_pc = "idle"
    /\ m_bn = <<>>
    /\ m_nb = <<>>
    /\ m_bb = <<>>

\* The chunk workers of a run.
Workers == {"w1", "w2"}

RunIdle ==
    /\ dayData = <<>>
    /\ w_env = <<>>
    /\ w_pc = [w \in Workers |-> "idle"]
    /\ w_cur = <<>>
    /\ w_acc = <<>>
    /\ w_exit = <<>>
    /\ w_scratch = <<>>
    /\ w_pub = <<>>
    /\ w_loaded = <<>>
    /\ retries = <<>>
    /\ s3 = <<>>
    /\ r_unset = {}
    /\ r_pc = "idle"
    /\ r_keys = <<>>
    /\ r_seen = {}
    /\ r_idx = 0
    /\ r_acc = <<>>
    /\ r_exit = "idle"

ExtractIdle ==
    /\ x_files = <<>>
    /\ x_failAt = 0
    /\ x_pc = "idle"
    /\ x_idx = 0
    /\ batch_rows = <<>>
    /\ total_rows = 0
    /\ x_writes = 0
    /\ x_sink = <<>>
    /\ x_exists = FALSE
    /\ x_exit = "idle"

ChunksIdle ==
    /\ g_start = 0
    /\ g_end = 0
    /\ g_days = 0
    /\ g_pc = "idle"
    /\ g_current = 0
    /\ g_chunks = <<>>

UnitIdle == ExtractIdle /\ ChunksIdle

\* ------------------------------------------------ specification SpecEngine
\* compress_df on every non-empty group of at most MaxObs rows of one aircraft.
InitEngine ==
    /\ e_df \in (SeqsUpTo(EngineRows, MaxObs) \ {<<>>})
    /\ e_pc = "input"
    /\ e_grouped = <<>>
    /\ e_kept = <<>>
    /\ e_out = <<>>
    /\ e_alt = <<>>
    /\ e_altOut = <<>>
    /\ DayIdle
    /\ MergeIdle
    /\ RunIdle
    /\ UnitIdle

CompressDf ==
    /\ e_pc = "input"
    /\ e_grouped' = groupby_signature_first(e_df)
    /\ e_kept' = subsumption_filter(groupby_signature_first(e_df))
    /\ e_out' = compress_df(e_df, e_df[1].icao)
    /\ e_pc' = "done"
    /\ UNCHANGED <<e_df, e_alt, e_altOut, dayVars, mergeVars, runVars, unitVars>>

NextEngine == CompressDf

SpecEngine == InitEngine /\ [][NextEngine]_vars

\* ------------------------------------------------- specification SpecOrder
\* compress_df on two orderings of the same rows of one aircraft, each sorted
\* by time as load_historical_for_day and concat_compressed_dfs sort them
\* (rows of one instant may come in any order).
TimeSorted(df) == \A i, j \in DOMAIN df : i < j => df[i].time <= df[j].time

\* The orderings of df that are sorted by time.
TimeSortedOrderings(df) ==
    {o \in {[i \in DOMAIN df |-> df[p[i]]] : p \in Permutations(DOMAIN df)} :
        TimeSorted(o)}

\* Rows of one aircraft with at least one content attribute set.
OrderRows == {o \in EngineRows : NonEmptyCount(o) > 0}

InitOrder ==
    /\ e_df \in {df \in SeqsUpTo(OrderRows, MaxObs) \ {<<>>} : TimeSorted(df)}
    /\ e_alt \in TimeSortedOrderings(e_df)
    /\ e_pc = "input"
    /\ e_grouped = <<>>
    /\ e_kept = <<>>
    /\ e_out = <<>>
    /\ e_altOut = <<>>
    /\ DayIdle
    /\ MergeIdle
    /\ RunIdle
    /\ UnitIdle

\* compress_df on the other ordering.
CompressAlt ==
    /\ e_pc = "done"
    /\ e_alt # <<>>
    /\ e_altOut' = compress_df(e_alt, e_alt[1].icao)
    /\ e_pc' = "both"
    /\ UNCHANGED <<e_df, e_alt, e_grouped, e_kept, e_out,
                   dayVars, mergeVars, runVars, unitVars>>

NextOrder == CompressDf \/ CompressAlt

SpecOrder == InitOrder /\ [][NextOrder]_vars

\* --------------------------------------------------- specification SpecDay
\* load_historical_for_day on every raw frame of at most MaxObs observations.
InitDay ==
    /\ d_raw \in SeqsUpTo(DayObservations, MaxObs)
    /\ d_pc = "input"
    /\ d_out = <<>>
    /\ EngineIdle
    /\ MergeIdle
    /\ RunIdle
    /\ UnitIdle

LoadHistoricalForDay ==
    /\ d_pc = "input"
    /\ d_out' = load_historical_for_day(d_raw)
    /\ d_pc' = "done"
    /\ UNCHANGED <<d_raw, engineVars, mergeVars, runVars, unitVars>>

NextDay == LoadHistoricalForDay

SpecDay == InitDay /\ [][NextDay]_vars

\* ------------------------------------------------- specification SpecMerge
\* concat_compressed_dfs on every pair of compressed frames, not both empty.
InitMerge ==
    /\ m_base \in CompressedFrames
    /\ m_new \in CompressedFrames
    /\ m_base \o m_new # <<>>
    /\ m_pc = "input"
    /\ m_bn = <<>>
    /\ m_nb = <<>>
    /\ m_bb = <<>>
    /\ EngineIdle
    /\ DayIdle
    /\ RunIdle
    /\ UnitIdle

MergeBaseNew ==
    /\ m_pc = "input"
    /\ m_bn' = concat_compressed_dfs(m_base, m_new)
    /\ m_pc' = "merged"
    /\ UNCHANGED <<m_base, m_new, m_nb, m_bb, engineVars, dayVars, runVars, unitVars>>

MergeNewBase ==
    /\ m_pc = "merged"
    /\ m_nb' = concat_compressed_dfs(m_new, m_base)
    /\ m_pc' = "swapped"
    /\ UNCHANGED <<m_base, m_new, m_bn, m_bb, engineVars, dayVars, runVars, unitVars>>

MergeBaseBase ==
    /\ m_pc = "swapped"
    /\ m_base # <<>>
    /\ m_bb' = concat_compressed_dfs(m_base, m_base)
    /\ m_pc' = "done"
    /\ UNCHANGED <<m_base, m_new, m_bn, m_nb, engineVars, dayVars, runVars, unitVars>>

NextMerge == MergeBaseNew \/ MergeNewBase \/ MergeBaseBase

SpecMerge == InitMerge /\ [][NextMerge]_vars

\* ----------------------------------------------- specification SpecExtract
\* process_chunk of process_icao_chunk.py over at most MaxFiles trace files.
\* The two nested loops (slices of files_per_batch files, executor.map over a
\* slice) visit the files in list order, results in the same order: one loop
\* here. The threshold is scaled down from the source's 100_000 rows.
BATCH_SIZE == 3

\* What process_file does with a trace file: raise, or return n rows.
FileOutcomes ==
    {[ok |-> FALSE, n |-> 0]} \cup {[ok |-> TRUE, n |-> k] : k \in 0..MaxRows}

\* The rows process_file returns for the i-th file: row j of file i is <<i, j>>.
process_file(i) == [j \in 1..x_files[i].n |-> <<i, j>>]

\* safe_process: the rows of the file, or [] when process_file raises.
safe_process(i) == IF x_files[i].ok THEN process_file(i) ELSE <<>>

\* Mutant of extend: the buffer is assigned, not extended.
extend_assign(buffer, rows) == rows

\* batch_rows.extend(rows)
extend(buffer, rows) == buffer \o rows

\* Mutant of batch_full: a strict comparison.
batch_full_strict(buffer) == Len(buffer) > BATCH_SIZE

\* len(batch_rows) >= BATCH_SIZE
batch_full(buffer) == Len(buffer) >= BATCH_SIZE

\* Whether the coming writer.write_table call raises.
write_raises == x_failAt = x_writes + 1

InitExtract ==
    /\ x_files \in SeqsUpTo(FileOutcomes, MaxFiles)
    /\ x_failAt \in 0..2
    /\ x_pc = "start"
    /\ x_idx = 0
    /\ batch_rows = <<>>
    /\ total_rows = 0
    /\ x_writes = 0
    /\ x_sink = <<>>
    /\ x_exists = FALSE
    /\ x_exit = "running"
    /\ EngineIdle
    /\ DayIdle
    /\ MergeIdle
    /\ RunIdle
    /\ ChunksIdle

\* writer = pq.ParquetWriter(output_path, ...): the file is created.
OpenWriter ==
    /\ x_pc = "start"
    /\ x_exists' = TRUE
    /\ x_idx' = 1
    /\ x_pc' = "loop"
    /\ UNCHANGED <<x_files, x_failAt, batch_rows, total_rows, x_writes, x_sink, x_exit,
                   engineVars, dayVars, mergeVars, runVars, chunkVars>>

\* One result of executor.map(safe_process, ...): non-empty rows extend the
\* buffer, a full buffer is written and emptied. A write that raises leaves
\* the loop through `finally`, which closes the writer; the file stays.
ProcessFileResult ==
    /\ x_pc = "loop"
    /\ x_idx <= Len(x_files)
    /\ LET rows == safe_process(x_idx)
           extended == extend(batch_rows, rows)
       IN  IF rows # <<>> /\ batch_full(extended)
           THEN /\ x_writes' = x_writes + 1
                /\ IF write_raises
                   THEN /\ batch_rows' = extended
                        /\ x_pc' = "failed"
                        /\ x_exit' = "error"
                        /\ UNCHANGED <<x_sink, total_rows, x_idx>>
                   ELSE /\ x_sink' = x_sink \o extended
                        /\ total_rows' = total_rows + Len(extended)
                        /\ batch_rows' = <<>>
                        /\ x_idx' = x_idx + 1
                        /\ UNCHANGED <<x_pc, x_exit>>
           ELSE /\ batch_rows' = IF rows # <<>> THEN extended ELSE batch_rows
                /\ x_idx' = x_idx + 1
                /\ UNCHANGED <<x_writes, x_sink, total_rows, x_pc, x_exit>>
    /\ UNCHANGED <<x_files, x_failAt, x_exists,
                   engineVars, dayVars, mergeVars, runVars, chunkVars>>

\* After the loops: the remaining rows are written, the writer is closed, and
\* the path is returned if any row was written.
FlushRemainder ==
    /\ x_pc = "loop"
    /\ x_idx > Len(x_files)
    /\ IF batch_rows # <<>>
       THEN /\ x_writes' = x_writes + 1
            /\ IF write_raises
               THEN /\ x_pc' = "failed"
                    /\ x_exit' = "error"
                    /\ UNCHANGED <<x_sink, total_rows>>
               ELSE /\ x_sink' = x_sink \o batch_rows
                    /\ total_rows' = total_rows + Len(batch_rows)
                    /\ x_pc' = "done"
                    /\ x_exit' = IF total_rows + Len(batch_rows) > 0 THEN "path" ELSE "None"
       ELSE /\ x_pc' = "done"
            /\ x_exit' = IF total_rows > 0 THEN "path" ELSE "None"
            /\ UNCHANGED <<x_writes, x_sink, total_rows>>
    /\ UNCHANGED <<x_files, x_failAt, x_idx, batch_rows, x_exists,
                   engineVars, dayVars, mergeVars, runVars, chunkVars>>

NextExtract == OpenWriter \/ ProcessFileResult \/ FlushRemainder

SpecExtract == InitExtract /\ [][NextExtract]_vars

\* ------------------------------------------------ specification SpecChunks
\* generate_date_chunks of run_historical_adsb_action.py. Dates are day
\* numbers: strptime and strftime with '%Y-%m-%d' are inverse on dates, and
\* timedelta(days = n) adds n.
DateRange == 1..MaxDate

\* Mutant of clip: the chunk end is never clipped.
clip_never(chunk_end, end_date) == chunk_end

\* if chunk_end > end_date: chunk_end = end_date
clip(chunk_end, end_date) == IF chunk_end > end_date THEN end_date ELSE chunk_end

InitChunks ==
    /\ g_start \in DateRange
    /\ g_end \in DateRange
    /\ g_days \in 1..MaxChunkDays
    /\ g_pc = "loop"
    /\ g_current = g_start
    /\ g_chunks = <<>>
    /\ EngineIdle
    /\ DayIdle
    /\ MergeIdle
    /\ RunIdle
    /\ ExtractIdle

\* One iteration of `while current < end_date`.
AppendChunk ==
    /\ g_pc = "loop"
    /\ g_current < g_end
    /\ LET chunk_end == clip(g_current + g_days, g_end)
       IN  /\ g_chunks' = Append(g_chunks, [start |-> g_current, end |-> chunk_end])
           /\ g_current' = chunk_end
    /\ UNCHANGED <<g_start, g_end, g_days, g_pc,
                   engineVars, dayVars, mergeVars, runVars, extractVars>>

\* The loop condition fails: return chunks.
ReturnChunks ==
    /\ g_pc = "loop"
    /\ ~(g_current < g_end)
    /\ g_pc' = "done"
    /\ UNCHANGED <<g_start, g_end, g_days, g_current, g_chunks,
                   engineVars, dayVars, mergeVars, runVars, extractVars>>

NextChunks == AppendChunk \/ ReturnChunks

SpecChunks == InitChunks /\ [][NextChunks]_vars

\* ------------------------------------------------------ specification Spec
\* A run: two chunk workers over the sub-ranges [1, split) and
\* [split, MaxDay + 1) of the global range, the shared storage, the reducer.
Days == 1..MaxDay

\* What the day-loader may find for a day, the instant left open: nothing,
\* aircraft 1 with dbFlags "1", and three observations of aircraft 2 and 1
\* (aircraft 1 with dbFlags "1" and year "1999" in the most informative one).
DayTemplates ==
    { <<>>,
      <<Row(0, 1, Str1, Empty)>>,
      <<Row(0, 2, Str1, Empty), Row(0, 1, Str1, Null), Row(0, 1, Str1, Str1999)>> }

\* A day either fails to load (ok = FALSE) or yields a raw frame; scratch
\* tells whether the load creates the directory data/adsb on the way.
DayOutcomes ==
    {[ok |-> FALSE, raw |-> <<>>, scratch |-> c] : c \in BOOLEAN}
        \cup {[ok |-> TRUE, raw |-> f, scratch |-> FALSE] : f \in DayTemplates}
        \cup {[ok |-> TRUE, raw |-> <<Row(0, 1, Str1, Empty)>>, scratch |-> TRUE]}

\* The outcomes of a run whose loads leave data/adsb alone.
PlainOutcomes == {o \in DayOutcomes : ~o.scratch}

\* The outcomes of a run that is started again: loads that create data/adsb,
\* and the empty day.
RetryOutcomes == {o \in DayOutcomes : o.scratch \/ (o.ok /\ o.raw = <<>>)}

\* The observations of a day carry an instant of that day.
AtDay(raw, day) == [i \in DOMAIN raw |-> [raw[i] EXCEPT !.time = day]]

\* load_raw_adsb_for_day(day) on a day that loads.
load_raw_adsb_for_day(day) == AtDay(dayData[day].raw, day)

\* load_historical_for_day of every day under every frame the day-loader may
\* find for it, computed once.
DayFrames ==
    [o \in DayOutcomes, d \in Days |->
        IF o.ok THEN load_historical_for_day(AtDay(o.raw, d)) ELSE <<>>]

\* df_compressed = load_historical_for_day(current_date) on a day that loads:
\* the compression of the frame load_raw_adsb_for_day(day) returns.
df_compressed(day) == DayFrames[dayData[day], day]

\* Mutant of df_empty: the emptiness test never fires.
df_empty_never(df) == FALSE

\* df.empty
df_empty(df) == df = <<>>

\* The accumulation step of the worker's and the reducer's loops:
\* if df_accumulated.empty: df_accumulated = df
\* else: df_accumulated = pd.concat([df_accumulated, df], ignore_index=True)
accumulate(df_accumulated, df) ==
    IF df_empty(df_accumulated) THEN df ELSE df_accumulated \o df

\* The names a worker reads with os.environ[...]: a missing one raises KeyError.
WorkerRequired == {"START_DATE", "END_DATE", "S3_BUCKET"}

\* The names the reducer reads with os.environ[...].
ReducerRequired == {"S3_BUCKET", "GLOBAL_START_DATE", "GLOBAL_END_DATE"}

\* os.environ.get("RUN_ID", "default")
run_id(env) == IF "RUN_ID" \in env.unset THEN "default" ELSE env.RUN_ID

\* s3_key = f"intermediate/{run_id}/chunk_{start_date_str}_{end_date_str}.csv.gz"
chunk_key(env) == <<"intermediate", run_id(env), env.START_DATE, env.END_DATE>>

\* final_key = f"final/planequery_aircraft_adsb_{global_start}_{global_end}.csv.gz"
final_key(env) == <<"final", "", env.GLOBAL_START_DATE, env.GLOBAL_END_DATE>>

\* The reducer's environment.
r_env ==
    [RUN_ID |-> "r1", GLOBAL_START_DATE |-> 1, GLOBAL_END_DATE |-> MaxDay + 1,
     unset |-> r_unset]

\* Mutant of upload_file: an existing object is kept and the new content is
\* stored beside it, under the key with a version suffix.
upload_file_versioned(store, key, content) ==
    IF key \in DOMAIN store THEN (Append(key, "v2") :> content) @@ store
    ELSE (key :> content) @@ store

\* s3.upload_file(local, bucket, key): the object under key is replaced.
upload_file(store, key, content) == (key :> content) @@ store

\* df.to_csv(path, index=False, compression="gzip"): one text line per row,
\* every cell written as its string.
to_csv(df) == df

\* A cell that reads as an integer.
IsDigits(v) == v # <<>> /\ \A i \in DOMAIN v : v[i] \in 48..57

\* str(int(v)) for a cell of digits: leading zeros are gone.
RECURSIVE StripZeros(_)
StripZeros(v) == IF Len(v) > 1 /\ v[1] = 48 THEN StripZeros(Tail(v)) ELSE v

\* pd.read_csv(path, compression="gzip", keep_default_na=False): a column all
\* of whose cells read as integers becomes an integer column (shown here as
\* astype(str) shows it); empty cells stay empty strings.
read_csv(csv) ==
    LET int_col == {c \in ColumnSet : csv # <<>> /\ \A i \in DOMAIN csv : IsDigits(csv[i][c])}
    IN  [i \in DOMAIN csv |->
            [f \in DOMAIN csv[i] |->
                IF f \in int_col THEN StripZeros(csv[i][f]) ELSE csv[i][f]]]

\* The characters of the string literals that make up a storage key.
Text(str) ==
    CASE str = "" -> <<>>
      [] str = "intermediate" -> <<105, 110, 116, 101, 114, 109, 101, 100, 105, 97, 116, 101>>
      [] str = "final" -> <<102, 105, 110, 97, 108>>
      [] str = "r1" -> <<114, 49>>
      [] str = "r10" -> <<114, 49, 48>>
      [] str = "r1/x" -> <<114, 49, 47, 120>>
      [] str = "default" -> <<100, 101, 102, 97, 117, 108, 116>>
      [] str = "chunk_" -> <<99, 104, 117, 110, 107, 95>>
      [] str = "_" -> <<95>>
      [] str = ".csv.gz" -> <<46, 99, 115, 118, 46, 103, 122>>
      [] str = "planequery_aircraft_adsb_" -> <<112, 108, 97, 110, 101, 113, 117, 101, 114, 121, 95, 97, 105, 114, 99, 114, 97, 102, 116, 95, 97, 100, 115, 98, 95>>
      [] str = "/" -> <<47>>

\* strftime("%Y-%m-%d") of a day: strings of one width, ordered as the days.
date_str(day) == <<48 + day>>

\* The key as the f-string spells it:
\* f"intermediate/{run_id}/chunk_{start_date_str}_{end_date_str}.csv.gz" or
\* f"final/planequery_aircraft_adsb_{global_start}_{global_end}.csv.gz".
key_str(k) ==
    IF k[1] = "final"
    THEN Text("final") \o Text("/") \o Text("planequery_aircraft_adsb_")
            \o date_str(k[3]) \o Text("_") \o date_str(k[4]) \o Text(".csv.gz")
    ELSE Text(k[1]) \o Text("/") \o Text(k[2]) \o Text("/") \o Text("chunk_")
            \o date_str(k[3]) \o Text("_") \o date_str(k[4]) \o Text(".csv.gz")

\* str.startswith, which the listing's Prefix applies to every key.
StartsWith(str, prefix) ==
    Len(prefix) <= Len(str) /\ SubSeq(str, 1, Len(prefix)) = prefix

\* str.endswith
EndsWith(str, suffix) ==
    Len(suffix) <= Len(str)
        /\ SubSeq(str, Len(str) - Len(suffix) + 1, Len(str)) = suffix

\* prefix = f"intermediate/{run_id}/"
prefix_str(prefix_run) == Text("intermediate") \o Text("/") \o Text(prefix_run) \o Text("/")

\* Mutant of list_chunk_keys: the keys in descending order.
list_chunk_keys_descending(store, prefix_run) ==
    LET found == {k \in DOMAIN store :
                    /\ StartsWith(key_str(k), prefix_str(prefix_run))
                    /\ EndsWith(key_str(k), Text(".csv.gz"))}
        after(k) == {j \in found : StrLess(key_str(k), key_str(j))}
    IN  [p \in 1..Cardinality(found) |->
            CHOOSE k \in found : Cardinality(after(k)) = p - 1]

\* The keys that start with f"intermediate/{run_id}/" and end with ".csv.gz",
\* after chunk_keys.sort() (the order of the key strings).
list_chunk_keys(store, prefix_run) ==
    LET found == {k \in DOMAIN store :
                    /\ StartsWith(key_str(k), prefix_str(prefix_run))
                    /\ EndsWith(key_str(k), Text(".csv.gz"))}
        before(k) == {j \in found : StrLess(key_str(j), key_str(k))}
    IN  [p \in 1..Cardinality(found) |->
            CHOOSE k \in found : Cardinality(before(k)) = p - 1]

\* The environment of worker w: sub-range [1, split) for w1 and
\* [split, MaxDay + 1) for w2, run "r1", the names of unset absent.
WorkerEnv(w, split, unset) ==
    [RUN_ID |-> "r1",
     START_DATE |-> IF w = "w1" THEN 1 ELSE split,
     END_DATE |-> IF w = "w1" THEN split ELSE MaxDay + 1,
     unset |-> unset]

\* The day the plain outcome of every day of a run with a missing input.
SimpleDay == [ok |-> TRUE, raw |-> <<Row(0, 1, Str1, Empty)>>, scratch |-> FALSE]

\* The day of a run beside a foreign run, in the foreign worker's sub-range:
\* aircraft 2 is seen, which the days before do not hold.
BusyDay ==
    [ok |-> TRUE,
     raw |-> <<Row(0, 2, Str1, Empty), Row(0, 1, Str1, Null), Row(0, 1, Str1, Str1999)>>,
     scratch |-> FALSE]

\* Run identifiers other than the reducer's "r1": one that extends it by a
\* character, one that extends it by a path segment.
OtherRuns == {"r10", "r1/x"}

\* Every process is about to start, nothing is stored.
InitRun ==
    /\ w_pc = [w \in Workers |-> "start"]
    /\ w_cur = [w \in Workers |-> 0]
    /\ w_acc = [w \in Workers |-> <<>>]
    /\ w_exit = [w \in Workers |-> "running"]
    /\ w_scratch = [w \in Workers |-> FALSE]
    /\ w_pub = [w \in Workers |-> <<>>]
    /\ w_loaded = [w \in Workers |-> <<>>]
    /\ s3 = <<>>
    /\ r_pc = "start"
    /\ r_keys = <<>>
    /\ r_seen = {}
    /\ r_idx = 0
    /\ r_acc = <<>>
    /\ r_exit = "running"
    /\ EngineIdle
    /\ DayIdle
    /\ MergeIdle
    /\ UnitIdle

\* Four families of runs: every mix of plain day outcomes, each process
\* started once with a complete environment; runs whose loads create
\* data/adsb and whose first worker is started a second time; runs in
\* which one name is absent from the environment of w1 or of the reducer;
\* and runs beside which w2 works for another run identifier.
Init ==
    /\ InitRun
    /\ \E split \in 2..(MaxDay + 1) :
          \/ /\ dayData \in [Days -> PlainOutcomes]
             /\ w_env = [w \in Workers |-> WorkerEnv(w, split, {})]
             /\ r_unset = {}
             /\ retries = [w \in Workers |-> 0]
          \/ /\ dayData \in [Days -> RetryOutcomes]
             /\ w_env = [w \in Workers |-> WorkerEnv(w, split, {})]
             /\ r_unset = {}
             /\ retries = [w \in Workers |-> IF w = "w1" THEN 1 ELSE 0]
          \/ /\ dayData = [d \in Days |-> SimpleDay]
             /\ retries = [w \in Workers |-> 0]
             /\ \/ \E n \in WorkerRequired \cup {"RUN_ID"} :
                      /\ w_env = [w \in Workers |->
                                    WorkerEnv(w, split, IF w = "w1" THEN {n} ELSE {})]
                      /\ r_unset = {}
                \/ \E n \in ReducerRequired \cup {"RUN_ID"} :
                      /\ w_env = [w \in Workers |-> WorkerEnv(w, split, {})]
                      /\ r_unset = {n}
          \/ /\ dayData = [d \in Days |-> IF d < split THEN SimpleDay ELSE BusyDay]
             /\ \E other \in OtherRuns :
                   w_env = [w \in Workers |->
                              IF w = "w2"
                              THEN [WorkerEnv(w, split, {}) EXCEPT !.RUN_ID = other]
                              ELSE WorkerEnv(w, split, {})]
             /\ r_unset = {}
             /\ retries = [w \in Workers |-> 0]

\* Mutant of WorkerStart: the storage location is not read before the loop.
WorkerStart_late_bucket(w) ==
    /\ w_pc[w] = "start"
    /\ IF w_env[w].unset \cap {"START_DATE", "END_DATE"} # {}
       THEN /\ w_pc' = [w_pc EXCEPT ![w] = "failed"]
            /\ w_exit' = [w_exit EXCEPT ![w] = "error"]
            /\ UNCHANGED w_cur
       ELSE /\ w_pc' = [w_pc EXCEPT ![w] = "loop"]
            /\ w_cur' = [w_cur EXCEPT ![w] = w_env[w].START_DATE]
            /\ UNCHANGED w_exit
    /\ UNCHANGED <<dayData, w_env, w_acc, w_scratch, w_pub, w_loaded, retries, s3, reducerVars,
                   engineVars, dayVars, mergeVars, unitVars>>

\* worker.py main up to the loop: the environment is read (a missing
\* START_DATE, END_DATE or S3_BUCKET raises KeyError), the dates are parsed,
\* df_accumulated and current_date are initialised.
WorkerStart(w) ==
    /\ w_pc[w] = "start"
    /\ IF w_env[w].unset \cap WorkerRequired # {}
       THEN /\ w_pc' = [w_pc EXCEPT ![w] = "failed"]
            /\ w_exit' = [w_exit EXCEPT ![w] = "error"]
            /\ UNCHANGED w_cur
       ELSE /\ w_pc' = [w_pc EXCEPT ![w] = "loop"]
            /\ w_cur' = [w_cur EXCEPT ![w] = w_env[w].START_DATE]
            /\ UNCHANGED w_exit
    /\ UNCHANGED <<dayData, w_env, w_acc, w_scratch, w_pub, w_loaded, retries, s3, reducerVars,
                   engineVars, dayVars, mergeVars, unitVars>>

\* Mutant of WorkerLoadDay: the except branch continues without advancing
\* current_date, so the failed day is loaded again.
WorkerLoadDay_stuck(w) ==
    /\ w_pc[w] = "loop"
    /\ w_cur[w] < w_env[w].END_DATE
    /\ IF dayData[w_cur[w]].ok
       THEN /\ w_acc' = [w_acc EXCEPT ![w] =
                           accumulate(@, df_compressed(w_cur[w]))]
            /\ w_scratch' = [w_scratch EXCEPT ![w] = FALSE]
            /\ w_cur' = [w_cur EXCEPT ![w] = @ + 1]
            /\ w_loaded' = [w_loaded EXCEPT ![w] = Append(@, w_cur[w])]
       ELSE /\ w_scratch' = [w_scratch EXCEPT ![w] = @ \/ dayData[w_cur[w]].scratch]
            /\ w_loaded' = [w_loaded EXCEPT ![w] =
                               IF Len(@) < MaxDay + 1 THEN Append(@, w_cur[w]) ELSE @]
            /\ UNCHANGED <<w_acc, w_cur>>
    /\ UNCHANGED <<dayData, w_env, w_pc, w_exit, w_pub, retries, s3, reducerVars,
                   engineVars, dayVars, mergeVars, unitVars>>

\* Mutant of WorkerLoadDay: a load failure is not caught and ends the worker.
WorkerLoadDay_abort(w) ==
    /\ w_pc[w] = "loop"
    /\ w_cur[w] < w_env[w].END_DATE
    /\ IF dayData[w_cur[w]].ok
       THEN /\ w_acc' = [w_acc EXCEPT ![w] =
                           accumulate(@, df_compressed(w_cur[w]))]
            /\ w_scratch' = [w_scratch EXCEPT ![w] = FALSE]
            /\ w_cur' = [w_cur EXCEPT ![w] = @ + 1]
            /\ UNCHANGED <<w_pc, w_exit>>
       ELSE /\ w_pc' = [w_pc EXCEPT ![w] = "failed"]
            /\ w_exit' = [w_exit EXCEPT ![w] = "error"]
            /\ w_scratch' = [w_scratch EXCEPT ![w] = @ \/ dayData[w_cur[w]].scratch]
            /\ UNCHANGED <<w_acc, w_cur>>
    /\ w_loaded' = [w_loaded EXCEPT ![w] = Append(@, w_cur[w])]
    /\ UNCHANGED <<dayData, w_env, w_pub, retries, s3, reducerVars,
                   engineVars, dayVars, mergeVars, unitVars>>

\* worker.py main, one iteration of `while current_date < end_date`: a load
\* failure is caught and the day skipped by `continue`, which also skips the
\* removal of data/adsb; a loaded day is compressed and accumulated, then
\* data/adsb is removed if it exists.
WorkerLoadDay(w) ==
    /\ w_pc[w] = "loop"
    /\ w_cur[w] < w_env[w].END_DATE
    /\ IF dayData[w_cur[w]].ok
       THEN /\ w_acc' = [w_acc EXCEPT ![w] =
                           accumulate(@, df_compressed(w_cur[w]))]
            /\ w_scratch' = [w_scratch EXCEPT ![w] = FALSE]
       ELSE /\ w_scratch' = [w_scratch EXCEPT ![w] = @ \/ dayData[w_cur[w]].scratch]
            /\ UNCHANGED w_acc
    /\ w_loaded' = [w_loaded EXCEPT ![w] = Append(@, w_cur[w])]
    /\ w_cur' = [w_cur EXCEPT ![w] = @ + 1]
    /\ UNCHANGED <<dayData, w_env, w_pc, w_exit, w_pub, retries, s3, reducerVars,
                   engineVars, dayVars, mergeVars, unitVars>>

\* worker.py main after the loop: nothing collected, return; otherwise
\* deduplicate, write the chunk file and upload it.
WorkerFinish(w) ==
    /\ w_pc[w] = "loop"
    /\ ~(w_cur[w] < w_env[w].END_DATE)
    /\ IF df_empty(w_acc[w])
       THEN UNCHANGED <<w_acc, w_pub, s3>>
       ELSE LET csv == to_csv(deduplicate_by_signature(w_acc[w]))
            IN  /\ w_acc' = [w_acc EXCEPT ![w] = deduplicate_by_signature(@)]
                /\ s3' = upload_file(s3, chunk_key(w_env[w]), csv)
                /\ w_pub' = [w_pub EXCEPT ![w] = Append(@, <<chunk_key(w_env[w]), csv>>)]
    /\ w_pc' = [w_pc EXCEPT ![w] = "done"]
    /\ w_exit' = [w_exit EXCEPT ![w] = "ok"]
    /\ UNCHANGED <<dayData, w_env, w_cur, w_scratch, w_loaded, retries, reducerVars,
                   engineVars, dayVars, mergeVars, unitVars>>

\* The worker is started again, same environment, in a fresh container.
WorkerRerun(w) ==
    /\ w_pc[w] \in {"done", "failed"}
    /\ retries[w] > 0
    /\ retries' = [retries EXCEPT ![w] = @ - 1]
    /\ w_pc' = [w_pc EXCEPT ![w] = "start"]
    /\ w_cur' = [w_cur EXCEPT ![w] = 0]
    /\ w_acc' = [w_acc EXCEPT ![w] = <<>>]
    /\ w_exit' = [w_exit EXCEPT ![w] = "running"]
    /\ w_scratch' = [w_scratch EXCEPT ![w] = FALSE]
    /\ w_loaded' = [w_loaded EXCEPT ![w] = <<>>]
    /\ UNCHANGED <<dayData, w_env, w_pub, s3, reducerVars,
                   engineVars, dayVars, mergeVars, unitVars>>

\* reducer.py main up to the download loop: the environment is read (a
\* missing S3_BUCKET, GLOBAL_START_DATE or GLOBAL_END_DATE raises KeyError),
\* then the run's chunk keys are listed; none found, return.
ReducerList ==
    /\ r_pc = "start"
    /\ IF r_unset \cap ReducerRequired # {}
       THEN /\ r_pc' = "failed"
            /\ r_exit' = "error"
            /\ UNCHANGED <<r_keys, r_seen, r_idx>>
       ELSE /\ r_keys' = list_chunk_keys(s3, run_id(r_env))
            /\ r_seen' = DOMAIN s3
            /\ IF r_keys' = <<>>
               THEN r_pc' = "done" /\ r_exit' = "ok" /\ r_idx' = r_idx
               ELSE r_pc' = "download" /\ r_exit' = r_exit /\ r_idx' = 1
    /\ UNCHANGED <<r_unset, r_acc, dayData, workerVars, s3,
                   engineVars, dayVars, mergeVars, unitVars>>

\* reducer.py main, one iteration of `for key in chunk_keys`: download, read
\* and accumulate one chunk.
ReducerDownload ==
    /\ r_pc = "download"
    /\ r_idx <= Len(r_keys)
    /\ r_acc' = accumulate(r_acc, read_csv(s3[r_keys[r_idx]]))
    /\ r_idx' = r_idx + 1
    /\ UNCHANGED <<r_unset, r_pc, r_keys, r_seen, r_exit, dayData, workerVars, s3,
                   engineVars, dayVars, mergeVars, unitVars>>

\* reducer.py main after the loop: deduplicate, write and upload the final
\* artifact.
ReducerFinish ==
    /\ r_pc = "download"
    /\ r_idx > Len(r_keys)
    /\ r_acc' = deduplicate_by_signature(r_acc)
    /\ s3' = upload_file(s3, final_key(r_env), to_csv(deduplicate_by_signature(r_acc)))
    /\ r_pc' = "done"
    /\ r_exit' = "ok"
    /\ UNCHANGED <<r_unset, r_keys, r_seen, r_idx, dayData, workerVars,
                   engineVars, dayVars, mergeVars, unitVars>>

Next ==
    \/ \E w \in Workers : WorkerStart(w)
    \/ \E w \in Workers : WorkerLoadDay(w)
    \/ \E w \in Workers : WorkerFinish(w)
    \/ \E w \in Workers : WorkerRerun(w)
    \/ ReducerList
    \/ ReducerDownload
    \/ ReducerFinish

Spec == Init /\ [][Next]_vars

\* -------------------------------------------------- specification SpecLoop
\* The chunk workers alone, over every outcome of the day-loader: a load that
\* raises (having created data/adsb or not), an empty day, a day with data.
LoopOutcomes ==
    {o \in DayOutcomes : ~o.ok \/ o.raw = <<>> \/ o.scratch}

InitLoop ==
    /\ InitRun
    /\ dayData \in [Days -> LoopOutcomes]
    /\ \E split \in 2..(MaxDay + 1) :
          w_env = [w \in Workers |-> WorkerEnv(w, split, {})]
    /\ r_unset = {}
    /\ retries = [w \in Workers |-> 0]

NextLoop ==
    \/ \E w \in Workers : WorkerStart(w)
    \/ \E w \in Workers : WorkerLoadDay(w)
    \/ \E w \in Workers : WorkerFinish(w)

\* A worker is a process of its own: once started it reads its environment,
\* and while its loop can take an iteration it takes one.
SpecLoop ==
    /\ InitLoop
    /\ [][NextLoop]_vars
    /\ \A w \in Workers : WF_vars(WorkerStart(w)) /\ WF_vars(WorkerLoadDay(w))

\* ---------------------------------------------- specification SpecArtifacts
\* Everything that publishes records: the runs of Spec, and the merges of
\* SpecMerge, whose result create_daily_planequery_aircraft_adsb_release.py
\* publishes.
InitArtifacts == Init \/ InitMerge

NextArtifacts == Next \/ NextMerge

SpecArtifacts == InitArtifacts /\ [][NextArtifacts]_vars

\* ------------------------------------------------------- claim vocabulary
\* The rows of a frame, as a set.
RowSet(df) == {df[i] : i \in DOMAIN df}

\* The content attributes a row specifies.
NonEmptyAttrs(row) == {c \in ColumnSet : row[c] # Empty}

\* S has the identical value for every non-empty attribute of R.
AgreesWith(R, S) == \A c \in NonEmptyAttrs(R) : S[c] = R[c]

\* R is subsumed by S.
SubsumedBy(R, S) ==
    /\ AgreesWith(R, S)
    /\ Cardinality(NonEmptyAttrs(S)) > Cardinality(NonEmptyAttrs(R))

\* Neither row's non-empty attributes are contained, with equal values, in
\* the other's.
Incomparable(R, S) == ~AgreesWith(R, S) /\ ~AgreesWith(S, R)

\* The signature of a raw observation once its nulls are normalised.
RawSignature(o) == signature(fillna(<<o>>)[1])

\* ------------------------------------------------------------- SpecEngine
\* C1: for every non-empty group of observations of one aircraft, compress_df
\* returns exactly one record: the subsumption filter never removes every
\* row, and never more than one row is returned.
C1_ExactlyOneRecord ==
    e_pc = "done" => (Len(e_kept) >= 1 /\ Len(e_out) = 1)

\* Three signatures of which the filter removes one and the tie-break another.
C1_Witness ==
    /\ e_pc = "done"
    /\ Len(e_grouped) = 3
    /\ Len(e_kept) = 2
    /\ Len(e_out) = 1

\* C4: the filter removes a one-per-signature row R if and only if some other
\* row S agrees with every non-empty attribute of R and has strictly more
\* non-empty attributes; so rows that are pairwise incomparable all survive,
\* and two or more of them reach the raw-frequency tie-break (len(df) > 1).
C4_SubsumptionFilter ==
    e_pc = "done" =>
        /\ \A i \in DOMAIN e_grouped :
              (e_grouped[i] \notin RowSet(e_kept)) <=>
                  (\E j \in DOMAIN e_grouped :
                        j # i /\ SubsumedBy(e_grouped[i], e_grouped[j]))
        /\ (\A i, j \in DOMAIN e_grouped :
                i # j => Incomparable(e_grouped[i], e_grouped[j]))
              => e_kept = e_grouped

\* A row is removed while two incomparable rows that set the same attribute to
\* different values both survive.
C4_Witness ==
    /\ e_pc = "done"
    /\ \E i \in DOMAIN e_grouped : e_grouped[i] \notin RowSet(e_kept)
    /\ \E i, j \in DOMAIN e_kept :
          /\ i # j
          /\ Incomparable(e_kept[i], e_kept[j])
          /\ e_kept[i].dbFlags # Empty
          /\ e_kept[j].dbFlags # Empty
          /\ e_kept[i].dbFlags # e_kept[j].dbFlags

\* -------------------------------------------------------------- SpecOrder
\* The number of rows of e_df that carry the signature of row x.
RawCount(x) == signature_counts(e_df, signature(x))

\* C21: two orderings of the same rows of one aircraft, each sorted by time,
\* give the same canonical record: the same signature at the same timestamp,
\* also when several surviving signatures tie on raw count.
C21_OrderIndependent ==
    e_pc = "both" => e_out = e_altOut

\* Two surviving signatures tie on raw count and their rows, of one instant,
\* come in opposite orders in the two orderings.
C21_Witness ==
    /\ e_pc = "both"
    /\ e_out = e_altOut
    /\ \E i, j \in DOMAIN e_kept :
          /\ i # j
          /\ RawCount(e_kept[i]) = RawCount(e_kept[j])
          /\ \A k \in DOMAIN e_kept : RawCount(e_kept[k]) <= RawCount(e_kept[i])
          /\ \E a, b \in DOMAIN e_df :
                /\ a < b
                /\ signature(e_df[a]) = signature(e_kept[i])
                /\ signature(e_df[b]) = signature(e_kept[j])
                /\ e_alt[a] = e_df[b]
                /\ e_alt[b] = e_df[a]

\* ---------------------------------------------------------------- SpecDay
\* The raw observations of aircraft ic carrying signature sig.
RawWith(ic, sig) ==
    {i \in DOMAIN d_raw : d_raw[i].icao = ic /\ RawSignature(d_raw[i]) = sig}

\* C3: the record load_historical_for_day keeps for an aircraft carries the
\* minimum timestamp among that aircraft's raw observations of the day that
\* share the kept record's signature.
C3_EarliestWins ==
    d_pc = "done" =>
        \A k \in DOMAIN d_out :
            LET same == RawWith(d_out[k].icao, signature(d_out[k]))
            IN  /\ same # {}
                /\ \A i \in same : d_out[k].time <= d_raw[i].time
                /\ \E i \in same : d_out[k].time = d_raw[i].time

\* The kept signature was observed twice, the later observation first in the
\* raw frame.
C3_Witness ==
    /\ d_pc = "done"
    /\ \E k \in DOMAIN d_out :
          \E i, j \in RawWith(d_out[k].icao, signature(d_out[k])) :
              i < j /\ d_raw[i].time > d_raw[j].time

\* The signatures of aircraft ic that survive the subsumption filter.
Survivors(ic) ==
    {signature(x) : x \in RowSet(subsumption_filter(groupby_signature_first(
                        Group(fillna(d_raw), ic))))}

\* C5: when more than one signature of an aircraft survives the subsumption
\* filter, the record selected for the day is the one whose signature was
\* carried by the largest number of the aircraft's raw observations.
C5_RawFrequencyWins ==
    d_pc = "done" =>
        \A k \in DOMAIN d_out :
            LET ic == d_out[k].icao
            IN  Cardinality(Survivors(ic)) > 1 =>
                    \A sig \in Survivors(ic) :
                        Cardinality(RawWith(ic, signature(d_out[k])))
                            >= Cardinality(RawWith(ic, sig))

\* -------------------------------------------------------------- SpecMerge
\* C6: the merge is a no-op on non-overlapping inputs: an aircraft present in
\* exactly one input comes out with exactly its input record, and the output
\* identifiers are the union of the inputs' identifiers.
C6_MergeNoOpOnDisjoint ==
    m_pc # "input" =>
        /\ Icaos(m_bn) = Icaos(m_base) \cup Icaos(m_new)
        /\ \A ic \in Icaos(m_base) \ Icaos(m_new) :
              Group(m_bn, ic) = Group(m_base, ic)
        /\ \A ic \in Icaos(m_new) \ Icaos(m_base) :
              Group(m_bn, ic) = Group(m_new, ic)

\* Each input holds an aircraft the other lacks; both come out of the merge.
C6_Witness ==
    /\ m_pc # "input"
    /\ Icaos(m_base) \ Icaos(m_new) # {}
    /\ Icaos(m_new) \ Icaos(m_base) # {}
    /\ Len(m_bn) = 2

\* C7: the merge is commutative and idempotent on compressed record sets:
\* merge(A, B) and merge(B, A) hold the same records, and merge(A, A) holds
\* exactly the records of A.
C7_MergeCommutativeIdempotent ==
    /\ m_pc \in {"swapped", "done"} => RowSet(m_bn) = RowSet(m_nb)
    /\ m_pc = "done" => RowSet(m_bb) = RowSet(m_base)

\* Both inputs hold the same aircraft at the same time with incomparable
\* records: a raw-count tie that only the tie-break decides.
C7_Witness ==
    /\ m_pc = "done"
    /\ \E i \in DOMAIN m_base, j \in DOMAIN m_new :
          /\ m_base[i].icao = m_new[j].icao
          /\ m_base[i].time = m_new[j].time
          /\ Incomparable(m_base[i], m_new[j])
    /\ RowSet(m_bn) = RowSet(m_nb)
    /\ Len(m_bb) = Len(m_base)

\* ------------------------------------------------------------------- Spec
\* The days of worker w's sub-range: inclusive start, exclusive end.
Range(w) == {d \in Days : w_env[w].START_DATE <= d /\ d < w_env[w].END_DATE}

\* The compressed records of a day, by what the day-loader finds for it.
CompressedRecords ==
    [o \in DayOutcomes, d \in 1..MaxDay |->
        IF o.ok THEN RowSet(load_historical_for_day(AtDay(o.raw, d))) ELSE {}]

\* The compressed records of day d: none when the day fails to load.
DayRecords(d) == CompressedRecords[dayData[d], d]

\* The first day of worker w's sub-range whose compressed records hold
\* aircraft ic with signature sig.
EarliestDay(w, ic, sig) ==
    LET with == {d \in Range(w) :
                    \E x \in DayRecords(d) : x.icao = ic /\ signature(x) = sig}
    IN  CHOOSE d \in with : \A e \in with : d <= e

\* The published objects: chunk artifacts and the final artifact.
Published == {s3[k] : k \in DOMAIN s3}

C9_ReducerFailsOnNoChunks ==
    (r_pc = "done" /\ r_keys = <<>>) =>
        (r_exit = "error" /\ final_key(r_env) \notin DOMAIN s3)

\* C10: a worker all of whose days fail to load or load empty publishes no
\* artifact and ends without an error.
C10_NoDataNoArtifact ==
    \A w \in Workers :
        (w_pc[w] = "done"
            /\ \A d \in Range(w) : ~dayData[d].ok \/ dayData[d].raw = <<>>) =>
            (w_exit[w] = "ok" /\ chunk_key(w_env[w]) \notin DOMAIN s3)

\* A worker finished a sub-range with a failed day and an empty day.
C10_Witness ==
    \E w \in Workers :
        /\ w_pc[w] = "done"
        /\ \E d1, d2 \in Range(w) :
              /\ ~dayData[d1].ok
              /\ dayData[d2].ok /\ dayData[d2].raw = <<>>
        /\ \A d \in Range(w) : ~dayData[d].ok \/ dayData[d].raw = <<>>
        /\ w_exit[w] = "ok"
        /\ chunk_key(w_env[w]) \notin DOMAIN s3

\* ------------------------------------------------------------ SpecExtract
\* The rows returned by the successfully parsed files among the first n, in
\* file order.
RECURSIVE ParsedRows(_)
ParsedRows(n) == IF n = 0 THEN <<>> ELSE ParsedRows(n - 1) \o safe_process(n)

\* C12: whatever mix of trace files parses or fails to parse, process_chunk
\* raises only when a write raises, and when it completes the rows written to
\* the sink are exactly the rows of the successfully parsed files, each once
\* and in order, the remainder included; total_rows is their count.
C12_ParsedRowsWrittenOnce ==
    /\ x_exit = "error" => (x_failAt # 0 /\ x_failAt = x_writes)
    /\ x_pc = "done" =>
          /\ x_sink = ParsedRows(Len(x_files))
          /\ total_rows = Len(ParsedRows(Len(x_files)))

\* A unit with a file that failed to parse completed, and what it wrote is
\* the remainder that never reached the threshold.
C12_Witness ==
    /\ x_pc = "done"
    /\ \E i \in DOMAIN x_files : ~x_files[i].ok
    /\ x_sink # <<>>
    /\ Len(x_sink) < BATCH_SIZE
    /\ x_writes = 1

\* C13 as claimed: when a write to the extractor's sink raises, the unit
\* aborts with the error and no file is left at the output location.
C13_NoPartialArtifact ==
    x_pc = "failed" => (x_exit = "error" /\ ~x_exists)

\* C20: at the start of the processing of every file result the buffer holds
\* fewer than BATCH_SIZE rows, and the rows written so far followed by the
\* buffer are the rows parsed so far: a full buffer is flushed at once and
\* every flush empties it.
C20_BufferBelowThreshold ==
    x_pc = "loop" =>
        /\ Len(batch_rows) < BATCH_SIZE
        /\ x_sink \o batch_rows = ParsedRows(x_idx - 1)
        /\ total_rows = Len(x_sink)

\* A flush has emptied the buffer and another file is still to come.
C20_Witness ==
    /\ x_pc = "loop"
    /\ x_idx <= Len(x_files)
    /\ Len(x_sink) >= BATCH_SIZE
    /\ batch_rows = <<>>

\* ------------------------------------------------------------- SpecChunks
\* The chunks that hold day d under inclusive-start, exclusive-end iteration.
ChunksOfDay(d) == {i \in DOMAIN g_chunks : g_chunks[i].start <= d /\ d < g_chunks[i].end}

\* C15: for start before end and chunk_days >= 1, generate_date_chunks
\* terminates (every iteration adds a chunk of at least one day, so there are
\* at most end - start iterations) and returns chunks of which the first
\* starts at the global start, each starts where the previous ends, the last
\* ends at the global end, each spans 1..chunk_days days, and every day of
\* the global range belongs to exactly one.
C15_ChunksPartitionRange ==
    g_pc \in {"loop", "done"} /\ g_start < g_end =>
        /\ Len(g_chunks) <= g_current - g_start
        /\ g_current <= g_end
        /\ \A i \in DOMAIN g_chunks :
              /\ g_chunks[i].start = (IF i = 1 THEN g_start ELSE g_chunks[i - 1].end)
              /\ g_chunks[i].end - g_chunks[i].start \in 1..g_days
        /\ g_pc = "done" =>
              /\ g_chunks # <<>>
              /\ g_chunks[Len(g_chunks)].end = g_end
              /\ \A d \in g_start..(g_end - 1) : Cardinality(ChunksOfDay(d)) = 1

\* A range cut into several chunks, the last one shorter than chunk_days.
C15_Witness ==
    /\ g_pc = "done"
    /\ Len(g_chunks) >= 2
    /\ g_chunks[Len(g_chunks)].end - g_chunks[Len(g_chunks)].start < g_days
    /\ g_chunks[Len(g_chunks)].end = g_end

\* ------------------------------------------------- Spec, the later claims
\* The least of a non-empty set of instants.
Min(S) == CHOOSE x \in S : \A y \in S : x <= y

\* The compressed records of the days of worker w's sub-range.
RangeRecords(w) == UNION {DayRecords(d) : d \in Range(w)}

\* The records of the chunk artifacts the reducer listed.
ListedRecords == UNION {RowSet(s3[r_keys[i]]) : i \in DOMAIN r_keys}

\* The records of a set that share aircraft and signature with x.
SameAs(x, records) ==
    {y \in records : y.icao = x.icao /\ signature(y) = signature(x)}

\* C11: a load failure never ends the worker (a worker fails only on a
\* missing required input), and once the worker has returned, every
\* compressed record of every day of its sub-range that loaded is in the
\* published chunk artifact, with its aircraft and signature and a timestamp
\* no later than that day's.
C11_LoadFailureSkipsDay ==
    \A w \in Workers :
        /\ w_pc[w] = "failed" =>
              w_env[w].unset \cap {"START_DATE", "END_DATE", "S3_BUCKET"} # {}
        /\ w_pc[w] = "done" =>
              /\ w_exit[w] = "ok"
              /\ w_cur[w] = w_env[w].END_DATE
              /\ \A R \in RangeRecords(w) :
                    /\ chunk_key(w_env[w]) \in DOMAIN s3
                    /\ \E x \in SameAs(R, RowSet(s3[chunk_key(w_env[w])])) :
                          x.time <= R.time

\* A worker returned from a sub-range whose second day failed to load, and
\* its artifact holds a record of the first day and one of the third.
C11_Witness ==
    \E w \in Workers :
        /\ w_pc[w] = "done"
        /\ {1, 2, 3} \subseteq Range(w)
        /\ ~dayData[2].ok
        /\ chunk_key(w_env[w]) \in DOMAIN s3
        /\ \E x, y \in RowSet(s3[chunk_key(w_env[w])]) : x.time = 1 /\ y.time = 3

\* C14 as claimed: a worker or reducer with any input missing from its
\* environment (run identifier included) fails before any work: no day is
\* loaded, no key listed, nothing published.
C14_AnyMissingInputFailsFast ==
    /\ \A w \in Workers :
          w_env[w].unset # {} =>
              /\ w_pc[w] \in {"start", "failed"}
              /\ w_cur[w] = 0
              /\ w_pub[w] = <<>>
    /\ r_unset # {} =>
          /\ r_pc \in {"start", "failed"}
          /\ r_keys = <<>>
          /\ final_key(r_env) \notin DOMAIN s3

\* C14 as amended: a worker with START_DATE, END_DATE or S3_BUCKET missing,
\* and a reducer with S3_BUCKET, GLOBAL_START_DATE or GLOBAL_END_DATE missing,
\* fails before any work; a missing RUN_ID is no failure: the process works
\* under the run identifier "default".
C14_RequiredInputFailsFast ==
    /\ \A w \in Workers :
          /\ w_env[w].unset \cap {"START_DATE", "END_DATE", "S3_BUCKET"} # {} =>
                /\ w_pc[w] \in {"start", "failed"}
                /\ w_cur[w] = 0
                /\ w_acc[w] = <<>>
                /\ w_pub[w] = <<>>
          /\ w_env[w].unset = {"RUN_ID"} =>
                /\ w_pc[w] # "failed"
                /\ \A i \in DOMAIN w_pub[w] : w_pub[w][i][1][2] = "default"
    /\ r_unset \cap {"S3_BUCKET", "GLOBAL_START_DATE", "GLOBAL_END_DATE"} # {} =>
          /\ r_pc \in {"start", "failed"}
          /\ r_keys = <<>>
          /\ r_idx = 0
          /\ r_acc = <<>>
          /\ final_key(r_env) \notin DOMAIN s3
    /\ r_unset = {"RUN_ID"} =>
          /\ r_pc # "failed"
          /\ \A i \in DOMAIN r_keys : r_keys[i][2] = "default"

\* A worker without its storage location has failed, having loaded and
\* published nothing, while the other worker has published its chunk.
C14_Witness ==
    \E w, v \in Workers :
        /\ "S3_BUCKET" \in w_env[w].unset
        /\ w_pc[w] = "failed"
        /\ w_exit[w] = "error"
        /\ w_pub[w] = <<>>
        /\ w_pub[v] # <<>>

C17_ScratchDeletedEveryDay ==
    \A w \in Workers : w_pc[w] \in {"loop", "done"} => ~w_scratch[w]

\* A frame lists its records in ascending timestamp order.
Ascending(df) == \A i, j \in DOMAIN df : i < j => df[i].time <= df[j].time

\* C18: every published artifact, chunk or final, and every result of the
\* merge lists its records in ascending timestamp order.
C18_ArtifactsAscendByTime ==
    /\ \A df \in Published : Ascending(df)
    /\ m_pc \in {"merged", "swapped", "done"} => Ascending(m_bn)
    /\ m_pc \in {"swapped", "done"} => Ascending(m_nb)
    /\ m_pc = "done" => Ascending(m_bb)

\* A final artifact in which a record of aircraft 2 precedes a later record
\* of aircraft 1: the order by aircraft and signature was undone by the sort.
C18_Witness ==
    /\ final_key(r_env) \in DOMAIN s3
    /\ \E i, j \in DOMAIN s3[final_key(r_env)] :
          /\ i < j
          /\ s3[final_key(r_env)][i].icao > s3[final_key(r_env)][j].icao
          /\ s3[final_key(r_env)][i].time < s3[final_key(r_env)][j].time

DaysFrom(start, upto) ==
    [i \in 1..(IF upto > start THEN upto - start ELSE 0) |-> start + i - 1]

\* C22: the day loop of every worker terminates, whatever the day-loader
\* does, and the days it called the day-loader for are exactly the days d
\* with start <= d < end, once each and in ascending order: at every moment
\* the days from start up to current_date, at the end those up to the end date.
C22_DayLoopTerminates ==
    /\ [](\A w \in Workers :
            /\ w_pc[w] \in {"loop", "done"} =>
                  /\ w_cur[w] <= w_env[w].END_DATE
                  /\ w_loaded[w] = DaysFrom(w_env[w].START_DATE, w_cur[w])
            /\ w_pc[w] = "done" =>
                  w_loaded[w] = DaysFrom(w_env[w].START_DATE, w_env[w].END_DATE))
    /\ \A w \in Workers :
          <>(w_pc[w] \in {"loop", "done"} /\ ~(w_cur[w] < w_env[w].END_DATE))

\* A worker has finished a sub-range of several days, one of which failed to
\* load and one of which loaded empty, while the other worker's sub-range is
\* empty.
C22_Witness ==
    \E w, v \in Workers :
        /\ w_pc[w] = "done"
        /\ Len(w_loaded[w]) = MaxDay
        /\ \E d, e \in Range(w) : ~dayData[d].ok /\ dayData[e].ok /\ dayData[e].raw = <<>>
        /\ w_pc[v] = "done"
        /\ w_loaded[v] = <<>>

\* ------------------------------------------------- Spec, the run identifier
\* The workers of the reducer's run.
OwnWorkers == {w \in Workers : run_id(w_env[w]) = run_id(r_env)}

\* The records of the chunk artifacts in storage that workers of the
\* reducer's run published.
OwnRecords ==
    UNION {RowSet(s3[chunk_key(w_env[w])]) :
              w \in {v \in OwnWorkers : chunk_key(w_env[v]) \in DOMAIN s3}}

\* C23 as claimed: the reducer of run R downloads no artifact that a worker of
\* another run identifier published (also when that identifier begins with
\* R), its final artifact holds only aircraft and signatures of artifacts of
\* run R, and every artifact a worker of run R published before the reducer
\* listed the prefix is listed and its records are in the final artifact.
C23_OnlyOwnRunMerged ==
    /\ \A i \in DOMAIN r_keys : r_keys[i][2] = run_id(r_env)
    /\ r_pc \in {"download", "done"} =>
          \A w \in OwnWorkers :
              chunk_key(w_env[w]) \in r_seen =>
                  \E i \in DOMAIN r_keys : r_keys[i] = chunk_key(w_env[w])
    /\ (r_pc = "done" /\ final_key(r_env) \in DOMAIN s3) =>
          /\ \A x \in RowSet(s3[final_key(r_env)]) : SameAs(x, OwnRecords) # {}
          /\ \A x \in ListedRecords : SameAs(x, RowSet(s3[final_key(r_env)])) # {}

\* ------------------------------------------------ Spec, workers and reducer
\* C24 as claimed: whatever the interleaving of the workers' uploads and the
\* reducer's listing, the final artifact holds a record for every aircraft
\* and signature of every chunk artifact a worker of the run has published.
C24_NoChunkMissing ==
    (r_pc = "done" /\ final_key(r_env) \in DOMAIN s3) =>
        \A w \in OwnWorkers :
            \A i \in DOMAIN w_pub[w] :
                \A x \in RowSet(w_pub[w][i][2]) :
                    SameAs(x, RowSet(s3[final_key(r_env)])) # {}

\* ---------------------------------------------- Spec, the deduplication
\* The pairs of aircraft identifier and signature of a set of records.
Pairs(records) == {<<x.icao, signature(x)>> : x \in records}

\* The records the reducer concatenated: the chunk artifacts it listed, as
\* read_csv reads them.
ReducerInput == UNION {RowSet(read_csv(s3[r_keys[i]])) : i \in DOMAIN r_keys}

\* A frame holds at most one record per aircraft identifier and signature.
OnePerPair(df) ==
    \A i, j \in DOMAIN df :
        (df[i].icao = df[j].icao /\ signature(df[i]) = signature(df[j])) => i = j

\* C25: what deduplicate_by_signature returns for the concatenated days of a
\* worker, and for the concatenated chunks of the reducer, holds one record
\* for each pair of aircraft identifier and signature of the concatenation,
\* neither more nor fewer: records of one aircraft with different signatures
\* are all kept, subsumed ones included.
C25_DedupKeepsEveryPair ==
    /\ \A w \in Workers :
          \A i \in DOMAIN w_pub[w] :
              /\ OnePerPair(w_pub[w][i][2])
              /\ Pairs(RowSet(w_pub[w][i][2])) = Pairs(RangeRecords(w))
    /\ (r_pc = "done" /\ final_key(r_env) \in DOMAIN s3) =>
          /\ OnePerPair(s3[final_key(r_env)])
          /\ Pairs(RowSet(s3[final_key(r_env)])) = Pairs(ReducerInput)

\* The reducer concatenated two chunks that repeat a pair, and its final
\* artifact holds a record of an aircraft beside one that subsumes it.
C25_Witness ==
    /\ r_pc = "done"
    /\ final_key(r_env) \in DOMAIN s3
    /\ Len(r_keys) = 2
    /\ Pairs(RowSet(s3[r_keys[1]])) \cap Pairs(RowSet(s3[r_keys[2]])) # {}
    /\ \E x, y \in RowSet(s3[final_key(r_env)]) :
          x.icao = y.icao /\ SubsumedBy(x, y)

====
